---- MODULE Spec2Model ----
(***************************************************************************)
(* State-machine model of assets/js/main.js: the four page widgets          *)
(* ThemeManager, ReadingProgress, LazyLoader and CodeBlockCopy.  The        *)
(* widgets share no state, so each has its own specification (SpecTheme,    *)
(* SpecProgress, SpecLazy, SpecCopy) in which the other widgets stay idle;  *)
(* Spec is their composition.                                               *)
(***************************************************************************)
EXTENDS Integers, Sequences, FiniteSets, TLC

VARIABLES
    \* ---- ThemeManager and its environment
    ambient,        \* matchMedia('(prefers-color-scheme: dark)'): "dark" / "light"
    saved,          \* localStorage item 'theme' (Absent when the key is missing)
    dataTheme,      \* documentElement attribute data-theme (Absent when unset)
    pageOpen,       \* a document is loaded and ThemeManager is constructed
    themeToggle,    \* this.themeToggle is an element (not null)
    themeIcon,      \* this.themeIcon is an element (not undefined/null)
    iconText,       \* themeIcon.textContent
    savedTheme,     \* the const savedTheme read by the latest loadTheme
    toggled,        \* history: a toggle click has written the storage
    preToggle,      \* history: <<data-theme, stored value, glyph>> before each of the
                    \* latest consecutive toggle clicks (the last two are kept)
    lastWriter,     \* history: the operation that last called localStorage.setItem
    themeOp,        \* history: the latest ThemeManager operation
    \* ---- ReadingProgress
    postContent,    \* document.querySelector('.post-content') finds an element
    progressBar,    \* this.progressBar: NoBar (null), or the number in style.width
    scrollBound,    \* the scroll listener is registered
    progressBuilt,  \* the ReadingProgress constructor has returned
    contentHeight,  \* postContent.offsetHeight
    contentTop,     \* postContent.offsetTop
    pageYOffset,    \* window.pageYOffset
    windowHeight,   \* window.innerHeight
    progressOp,     \* history: the latest ReadingProgress operation
    \* ---- LazyLoader
    hasIO,          \* 'IntersectionObserver' in window
    lazyBuilt,      \* the LazyLoader constructor has returned
    observer,       \* this.observer is an IntersectionObserver (not null)
    observed,       \* the observer's set of observed targets
    dataSrc,        \* per image: attribute data-src (Absent when missing)
    imgSrc,         \* per image: attribute src (Absent when missing)
    onloadSet,      \* per image: img.onload is the un-blur callback
    unblurred,      \* per image: the un-blur callback has run
    origDataSrc,    \* history, per image: data-src when the page was parsed
    origSrc,        \* history, per image: src when the page was parsed
    loads,          \* history, per image: times loadImage took effect
    lastEntries,    \* history: the entries of the latest observer callback
    lazyOp,         \* history: the latest LazyLoader operation
    \* ---- CodeBlockCopy (one <pre> block and its button)
    hasClipboard,   \* navigator.clipboard is an object
    hasCode,        \* the <pre> holds a <code> element
    codeText,       \* pre.querySelector('code').innerText
    copyBuilt,      \* the CodeBlockCopy constructor has returned
    buttonHTML,     \* button.innerHTML (Absent before the button exists)
    buttonOpacity,  \* button.style.opacity
    timers,         \* pending setTimeout callbacks, each its captured originalHTML
    pendingWrites,  \* writeText promises not yet settled
    clipboard,      \* the system clipboard's text (Absent: nothing copied)
    textAreas,      \* <textarea> elements in document.body
    errorLog,       \* console.error calls
    execCalls,      \* document.execCommand('copy') calls
    thrown,         \* exceptions that escaped a click handler
    clicks,         \* history: click events dispatched
    acks,           \* history: clicks that swapped the icon and set a timer
    rejects,        \* history: writeText promises that rejected
    resolves,       \* history: writeText promises that were fulfilled
    copyOp          \* history: the latest CodeBlockCopy operation

themeVars == <<ambient, saved, dataTheme, pageOpen, themeToggle, themeIcon,
               iconText, savedTheme, toggled, preToggle, lastWriter, themeOp>>
progressVars == <<postContent, progressBar, scrollBound, progressBuilt, contentHeight, contentTop,
                  pageYOffset, windowHeight, progressOp>>
lazyVars == <<hasIO, lazyBuilt, observer, observed, dataSrc, imgSrc, onloadSet,
              unblurred, origDataSrc, origSrc, loads, lastEntries, lazyOp>>
copyVars == <<hasClipboard, hasCode, codeText, copyBuilt, buttonHTML, buttonOpacity, timers,
              pendingWrites, clipboard, textAreas, errorLog, execCalls, thrown,
              clicks, acks, rejects, resolves, copyOp>>
vars == <<themeVars, progressVars, lazyVars, copyVars>>

\* null / undefined / a missing attribute or storage key
Absent == "<absent>"

\* JavaScript truthiness of a string-or-null value: null and "" are falsy
Truthy(v) == v # Absent /\ v # ""

\* a || b
OrElse(a, b) == IF Truthy(a) THEN a ELSE b

(***************************************************************************)
(* ThemeManager                                                             *)
(***************************************************************************)
Themes == {"light", "dark"}
Sun == "sun"            \* the glyph set for the dark theme
Moon == "moon"          \* the glyph set for the light theme
InitialIcon == "markup" \* whatever the page's markup put in .theme-icon

\* What ThemeManager's methods read and write: the instance's icon field, the
\* document attribute, the storage item; wrote records a localStorage.setItem call.
ThemeState == [themeIcon |-> themeIcon, dataTheme |-> dataTheme, saved |-> saved,
               iconText |-> iconText, wrote |-> FALSE]

GetSystemPreference == ambient

GetSavedTheme(s) == s.saved

UpdateIconOwnGlyph(s, theme) ==
    IF ~s.themeIcon THEN s
    ELSE [s EXCEPT !.iconText = IF theme = "dark" THEN Moon ELSE Sun]

UpdateIcon(s, theme) ==
    IF ~s.themeIcon THEN s
    ELSE [s EXCEPT !.iconText = IF theme = "dark" THEN Sun ELSE Moon]

SetThemeNoPersist(s, theme) ==
    UpdateIcon([s EXCEPT !.dataTheme = theme], theme)

SetTheme(s, theme) ==
    UpdateIcon([s EXCEPT !.dataTheme = theme, !.saved = theme, !.wrote = TRUE], theme)

LoadTheme(s) ==
    LET theme == OrElse(GetSavedTheme(s), GetSystemPreference)
    IN  UpdateIcon(SetTheme(s, theme), theme)

ToggleThemeOneWay(s) ==
    LET currentTheme == OrElse(s.dataTheme, "light")
        newTheme == IF currentTheme = "light" THEN "dark" ELSE "dark"
    IN  SetTheme(s, newTheme)

ToggleTheme(s) ==
    LET currentTheme == OrElse(s.dataTheme, "light")
        newTheme == IF currentTheme = "light" THEN "dark" ELSE "light"
    IN  SetTheme(s, newTheme)

OnPreferenceChangeUnguarded(s, matches) ==
    SetTheme(s, IF matches THEN "dark" ELSE "light")

\* the matchMedia 'change' listener of bindEvents
OnPreferenceChange(s, matches) ==
    IF ~Truthy(GetSavedTheme(s))
    THEN SetTheme(s, IF matches THEN "dark" ELSE "light")
    ELSE s

\* the writes of one ThemeManager operation, op, that ended in state t
ThemeApply(t, op) ==
    /\ dataTheme' = t.dataTheme
    /\ saved' = t.saved
    /\ iconText' = t.iconText
    /\ lastWriter' = IF t.wrote THEN op ELSE lastWriter
    /\ themeOp' = op

ThemeIdle ==
    /\ ambient = "light" /\ saved = Absent /\ dataTheme = Absent
    /\ pageOpen = FALSE /\ themeToggle = FALSE /\ themeIcon = FALSE
    /\ iconText = InitialIcon /\ savedTheme = Absent /\ toggled = FALSE
    /\ preToggle = <<>>
    /\ lastWriter = "none" /\ themeOp = "none"

\* Before DOMContentLoaded: the storage holds what an earlier visit left there.
ThemeInit ==
    /\ ambient \in Themes
    /\ saved \in Themes \cup {Absent}
    /\ dataTheme = Absent
    /\ pageOpen = FALSE /\ themeToggle = FALSE /\ themeIcon = FALSE
    /\ iconText = InitialIcon /\ savedTheme = Absent /\ toggled = FALSE
    /\ preToggle = <<>>
    /\ lastWriter = "none" /\ themeOp = "none"

\* new ThemeManager() on a freshly parsed document: constructor, init, loadTheme,
\* bindEvents.  The page may or may not hold #themeToggle and its .theme-icon.
ThemeConstruct ==
    /\ ~pageOpen
    /\ \E toggleEl \in BOOLEAN, iconEl \in BOOLEAN :
          /\ themeToggle' = toggleEl
          /\ themeIcon' = (toggleEl /\ iconEl)
          /\ ThemeApply(LoadTheme([ThemeState EXCEPT !.themeIcon = toggleEl /\ iconEl]),
                        "load")
    /\ savedTheme' = GetSavedTheme(ThemeState)
    /\ pageOpen' = TRUE
    /\ preToggle' = <<>>
    /\ UNCHANGED <<ambient, toggled>>
    /\ UNCHANGED <<progressVars, lazyVars, copyVars>>

\* a click on #themeToggle: the listener bindEvents registered when it exists
ToggleClick ==
    /\ pageOpen /\ themeToggle
    /\ ThemeApply(ToggleTheme(ThemeState), "toggle")
    /\ toggled' = TRUE
    /\ preToggle' = LET before == <<dataTheme, saved, iconText>>
                    IN  IF Len(preToggle) = 2 THEN <<preToggle[2], before>>
                        ELSE Append(preToggle, before)
    /\ UNCHANGED <<ambient, pageOpen, themeToggle, themeIcon, savedTheme>>
    /\ UNCHANGED <<progressVars, lazyVars, copyVars>>

\* the system preference flips while the page is open: the 'change' listener runs
PreferenceChange ==
    /\ pageOpen
    /\ \E matches \in BOOLEAN :
          /\ (IF matches THEN "dark" ELSE "light") # ambient
          /\ ambient' = IF matches THEN "dark" ELSE "light"
          /\ ThemeApply(OnPreferenceChange(ThemeState, matches), "ambient")
    /\ preToggle' = <<>>
    /\ UNCHANGED <<pageOpen, themeToggle, themeIcon, savedTheme, toggled>>
    /\ UNCHANGED <<progressVars, lazyVars, copyVars>>

\* the page is closed or navigated away from: the document and the instance go,
\* the storage stays
PageUnload ==
    /\ pageOpen
    /\ pageOpen' = FALSE
    /\ dataTheme' = Absent
    /\ iconText' = InitialIcon
    /\ themeToggle' = FALSE /\ themeIcon' = FALSE
    /\ themeOp' = "unload"
    /\ preToggle' = <<>>
    /\ UNCHANGED <<ambient, saved, savedTheme, toggled, lastWriter>>
    /\ UNCHANGED <<progressVars, lazyVars, copyVars>>

\* the system preference flips while no page is open: nothing listens
PreferenceDrift ==
    /\ ~pageOpen
    /\ ambient' = IF ambient = "dark" THEN "light" ELSE "dark"
    /\ UNCHANGED <<saved, dataTheme, pageOpen, themeToggle, themeIcon, iconText,
                   savedTheme, toggled, preToggle, lastWriter, themeOp>>
    /\ UNCHANGED <<progressVars, lazyVars, copyVars>>

ThemeNext ==
    \/ ThemeConstruct
    \/ ToggleClick
    \/ PreferenceChange
    \/ PageUnload
    \/ PreferenceDrift

(***************************************************************************)
(* ReadingProgress                                                          *)
(* A JavaScript number is modelled exactly: a fraction num/den with         *)
(* den > 0, or +Infinity, -Infinity, NaN.  Division and multiplication of   *)
(* doubles are monotone, so the order of every comparison made here is the  *)
(* order of the exact values.                                               *)
(***************************************************************************)
MaxContentHeight == 3
MaxContentTop == 3
MaxScroll == 3
MaxWindowHeight == 2

Num(n, d) == [kind |-> "num", num |-> n, den |-> d]
PosInf == [kind |-> "+inf", num |-> 1, den |-> 1]
NegInf == [kind |-> "-inf", num |-> -1, den |-> 1]
NaN == [kind |-> "nan", num |-> 0, den |-> 1]
NoBar == [kind |-> "null", num |-> 0, den |-> 1]

\* a / b for integers a, b >= 0 ... b may be 0: x/0 is +-Infinity, 0/0 is NaN
Divide(a, b) ==
    IF b # 0 THEN Num(a, b)
    ELSE IF a > 0 THEN PosInf
    ELSE IF a < 0 THEN NegInf
    ELSE NaN

\* v * k for an integer k > 0
Times(v, k) == IF v.kind = "num" THEN Num(v.num * k, v.den) ELSE v

\* a < b on numbers other than NaN
Less(a, b) ==
    CASE a.kind = "+inf" -> FALSE
      [] a.kind = "-inf" -> b.kind # "-inf"
      [] b.kind = "+inf" -> TRUE
      [] b.kind = "-inf" -> FALSE
      [] OTHER -> a.num * b.den < b.num * a.den

\* a <= b as JavaScript compares numbers: false when either is NaN
LessEq(a, b) ==
    /\ a.kind # "nan" /\ b.kind # "nan"
    /\ ~Less(b, a)

\* Math.max and Math.min: NaN if either argument is NaN
MathMax(a, b) ==
    IF a.kind = "nan" \/ b.kind = "nan" THEN NaN
    ELSE IF Less(a, b) THEN b ELSE a

MathMin(a, b) ==
    IF a.kind = "nan" \/ b.kind = "nan" THEN NaN
    ELSE IF Less(b, a) THEN b ELSE a

\* window.pageYOffset || document.documentElement.scrollTop
ScrollTopOf(pyo, docScrollTop) == IF pyo # 0 THEN pyo ELSE docScrollTop

\* const scrollPercent of the scroll listener
ScrollPercent(height, top, scrollTop, winHeight) ==
    MathMin(Num(100, 1),
            MathMax(Num(0, 1),
                    Times(Divide(scrollTop - top + winHeight, height), 100)))

ProgressIdle ==
    /\ postContent = FALSE /\ progressBar = NoBar /\ scrollBound = FALSE
    /\ progressBuilt = FALSE
    /\ contentHeight = 0 /\ contentTop = 0 /\ pageYOffset = 0 /\ windowHeight = 1
    /\ progressOp = "none"

\* Before DOMContentLoaded: the parsed page, laid out, not scrolled.
ProgressInit ==
    /\ postContent \in BOOLEAN
    /\ progressBar = NoBar /\ scrollBound = FALSE /\ progressBuilt = FALSE
    /\ contentHeight \in 0..MaxContentHeight
    /\ contentTop \in 0..MaxContentTop
    /\ windowHeight \in 1..MaxWindowHeight
    /\ pageYOffset = 0
    /\ progressOp = "none"

\* the scroll listener: no-op when the content region is gone
OnScroll(bar, present, height, top, scrollTop, winHeight) ==
    IF ~present THEN bar
    ELSE ScrollPercent(height, top, scrollTop, winHeight)

\* new ReadingProgress(): init, createProgressBar (width: 0%), bindScrollEvent
ProgressConstruct ==
    /\ ~progressBuilt
    /\ progressBuilt' = TRUE
    /\ IF postContent
       THEN progressBar' = Num(0, 1) /\ scrollBound' = TRUE
       ELSE progressBar' = NoBar /\ scrollBound' = FALSE
    /\ progressOp' = "construct"
    /\ UNCHANGED <<postContent, contentHeight, contentTop, pageYOffset, windowHeight>>
    /\ UNCHANGED <<themeVars, lazyVars, copyVars>>

\* a scroll event: the page moves to offset y and the listener, if bound, runs
Scroll ==
    /\ progressBuilt
    /\ \E y \in 0..MaxScroll :
          /\ pageYOffset' = y
          /\ progressBar' =
                IF scrollBound
                THEN OnScroll(progressBar, postContent, contentHeight, contentTop,
                              ScrollTopOf(y, y), windowHeight)
                ELSE progressBar
    /\ progressOp' = "scroll"
    /\ UNCHANGED <<postContent, scrollBound, progressBuilt, contentHeight, contentTop,
                   windowHeight>>
    /\ UNCHANGED <<themeVars, lazyVars, copyVars>>

\* the layout changes (a resize, a reflow): no listener of this widget runs
Relayout ==
    /\ progressBuilt
    /\ contentHeight' \in 0..MaxContentHeight
    /\ contentTop' \in 0..MaxContentTop
    /\ windowHeight' \in 1..MaxWindowHeight
    /\ progressOp' = "relayout"
    /\ UNCHANGED <<postContent, progressBar, scrollBound, progressBuilt, pageYOffset>>
    /\ UNCHANGED <<themeVars, lazyVars, copyVars>>

\* the content region leaves the document after activation
DetachContent ==
    /\ progressBuilt /\ postContent
    /\ postContent' = FALSE
    /\ progressOp' = "detach"
    /\ UNCHANGED <<progressBar, scrollBound, progressBuilt, contentHeight, contentTop,
                   pageYOffset, windowHeight>>
    /\ UNCHANGED <<themeVars, lazyVars, copyVars>>

ProgressNext ==
    \/ ProgressConstruct
    \/ Scroll
    \/ Relayout
    \/ DetachContent

(***************************************************************************)
(* LazyLoader                                                               *)
(***************************************************************************)
NumImages == 2
MaxEntries == 2

Images == 1..NumImages
DataSrcValues == {Absent, "", "a.png"}   \* no data-src, data-src="", a real one
SrcValues == {Absent, "ph.gif"}          \* no src, a placeholder

\* What LazyLoader's methods read and write.
LazyState == [observed |-> observed, dataSrc |-> dataSrc, imgSrc |-> imgSrc,
              onloadSet |-> onloadSet, loads |-> loads]

\* document.querySelectorAll('img[data-src]'): the attribute exists, "" included
MarkedImages(s) == {i \in Images : s.dataSrc[i] # Absent}

LoadImageUnguarded(s, img) ==
    [s EXCEPT !.imgSrc[img] = s.dataSrc[img],
              !.dataSrc[img] = Absent,
              !.onloadSet[img] = TRUE,
              !.loads[img] = @ + 1]

LoadImage(s, img) ==
    LET src == s.dataSrc[img]
    IN  IF Truthy(src)
        THEN [s EXCEPT !.imgSrc[img] = src,
                       !.dataSrc[img] = Absent,
                       !.onloadSet[img] = TRUE,
                       !.loads[img] = @ + 1]
        ELSE s

\* forEach over a NodeList, in document order
RECURSIVE LoadEach(_, _)
LoadEach(s, imgs) ==
    IF imgs = {} THEN s
    ELSE LET img == CHOOSE i \in imgs : \A j \in imgs : i <= j
         IN  LoadEach(LoadImage(s, img), imgs \ {img})

LoadNoImages(s) == s

LoadAllImages(s) == LoadEach(s, MarkedImages(s))

ObserveImages(s) == [s EXCEPT !.observed = @ \cup MarkedImages(s)]

OnEntryKeepObserving(s, entry) ==
    IF entry.isIntersecting THEN LoadImage(s, entry.target) ELSE s

\* the body of entries.forEach in the observer's callback
OnEntry(s, entry) ==
    IF entry.isIntersecting
    THEN LET t == LoadImage(s, entry.target)
         IN  [t EXCEPT !.observed = @ \ {entry.target}]
    ELSE s

\* the IntersectionObserver callback
RECURSIVE OnIntersection(_, _)
OnIntersection(s, entries) ==
    IF entries = <<>> THEN s
    ELSE OnIntersection(OnEntry(s, Head(entries)), Tail(entries))

\* the batches the browser may deliver: entries for targets observed at delivery
EntriesOver(targets) ==
    UNION {[1..n -> [target : targets, isIntersecting : BOOLEAN]] : n \in 1..MaxEntries}

LazyApply(t, op) ==
    /\ observed' = t.observed
    /\ dataSrc' = t.dataSrc
    /\ imgSrc' = t.imgSrc
    /\ onloadSet' = t.onloadSet
    /\ loads' = t.loads
    /\ lazyOp' = op

LazyIdle ==
    /\ hasIO = TRUE /\ lazyBuilt = FALSE /\ observer = FALSE /\ observed = {}
    /\ dataSrc = [i \in Images |-> Absent] /\ imgSrc = [i \in Images |-> Absent]
    /\ onloadSet = [i \in Images |-> FALSE] /\ unblurred = [i \in Images |-> FALSE]
    /\ origDataSrc = dataSrc /\ origSrc = imgSrc
    /\ loads = [i \in Images |-> 0]
    /\ lastEntries = <<>>
    /\ lazyOp = "none"

\* Before DOMContentLoaded: the parsed page's images.
LazyInit ==
    /\ hasIO \in BOOLEAN
    /\ lazyBuilt = FALSE /\ observer = FALSE /\ observed = {}
    /\ dataSrc \in [Images -> DataSrcValues]
    /\ imgSrc \in [Images -> SrcValues]
    /\ onloadSet = [i \in Images |-> FALSE] /\ unblurred = [i \in Images |-> FALSE]
    /\ origDataSrc = dataSrc /\ origSrc = imgSrc
    /\ loads = [i \in Images |-> 0]
    /\ lastEntries = <<>>
    /\ lazyOp = "none"

\* new LazyLoader(): constructor and init
LazyConstruct ==
    /\ ~lazyBuilt
    /\ lazyBuilt' = TRUE
    /\ IF hasIO
       THEN /\ observer' = TRUE
            /\ LazyApply(ObserveImages(LazyState), "construct")
       ELSE /\ observer' = FALSE
            /\ LazyApply(LoadAllImages(LazyState), "construct")
    /\ UNCHANGED <<hasIO, unblurred, origDataSrc, origSrc, lastEntries>>
    /\ UNCHANGED <<themeVars, progressVars, copyVars>>

\* the browser delivers a batch of entries to the observer's callback
IntersectionCallback ==
    /\ lazyBuilt /\ observer /\ observed # {}
    /\ \E entries \in EntriesOver(observed) :
          /\ LazyApply(OnIntersection(LazyState, entries), "intersection")
          /\ lastEntries' = entries
    /\ UNCHANGED <<hasIO, lazyBuilt, observer, unblurred, origDataSrc, origSrc>>
    /\ UNCHANGED <<themeVars, progressVars, copyVars>>

\* an image finishes loading: img.onload runs
ImageLoaded ==
    /\ \E img \in Images :
          /\ onloadSet[img] /\ ~unblurred[img]
          /\ unblurred' = [unblurred EXCEPT ![img] = TRUE]
    /\ lazyOp' = "onload"
    /\ UNCHANGED <<hasIO, lazyBuilt, observer, observed, dataSrc, imgSrc, onloadSet,
                   origDataSrc, origSrc, loads, lastEntries>>
    /\ UNCHANGED <<themeVars, progressVars, copyVars>>

LazyNext ==
    \/ LazyConstruct
    \/ IntersectionCallback
    \/ ImageLoaded

(***************************************************************************)
(* CodeBlockCopy: one <pre> block, its button, the clipboard                *)
(***************************************************************************)
MaxClicks == 3

ClipboardIcon == "clipboard-icon"   \* the glyph addCopyButton puts in the button
CheckIcon == "check-icon"           \* the glyph the click listener swaps in
CodeTexts == {"x = 1", "if x:\n    y = 2"}

\* What the click listener and the promise's catch callback read and write;
\* threw says that the call being evaluated has thrown.
CopyState == [buttonHTML |-> buttonHTML, timers |-> timers,
              pendingWrites |-> pendingWrites, clipboard |-> clipboard,
              textAreas |-> textAreas, errorLog |-> errorLog, execCalls |-> execCalls,
              thrown |-> thrown, acks |-> acks, threw |-> FALSE]

Throw(s) == [s EXCEPT !.threw = TRUE, !.thrown = @ + 1]

\* navigator.clipboard.writeText(text).catch(...): the synchronous part.  Without
\* navigator.clipboard the property read throws a TypeError.
CopyToClipboard(s) ==
    IF ~hasClipboard THEN Throw(s)
    ELSE [s EXCEPT !.pendingWrites = @ + 1]

\* the lines of the click listener after the copyToClipboard call
Acknowledge(s) ==
    LET originalHTML == s.buttonHTML
    IN  [s EXCEPT !.buttonHTML = CheckIcon,
                  !.timers = Append(@, originalHTML),
                  !.acks = @ + 1]

OnCopyClickAckLater(s) ==
    IF ~hasCode THEN Throw(s)
    ELSE CopyToClipboard(s)

\* the click listener of the button
OnCopyClick(s) ==
    IF ~hasCode THEN Throw(s)
    ELSE LET t == CopyToClipboard(s)
         IN  IF t.threw THEN t ELSE Acknowledge(t)

\* the setTimeout callback that captured originalHTML
OnTimer(s) ==
    [s EXCEPT !.buttonHTML = Head(s.timers), !.timers = Tail(@)]

FallbackLeavesTextArea(s, text, execOk) ==
    [s EXCEPT !.errorLog = @ + 1,
              !.textAreas = @ + 1,
              !.execCalls = @ + 1,
              !.clipboard = IF execOk THEN text ELSE @]

\* the catch callback of copyToClipboard: console.error, then the textarea
\* fallback; execCommand('copy') copies the selection or reports false
OnWriteRejected(s, text, execOk) ==
    LET logged == [s EXCEPT !.errorLog = @ + 1]
        appended == [logged EXCEPT !.textAreas = @ + 1]
        copied == [appended EXCEPT !.execCalls = @ + 1,
                                   !.clipboard = IF execOk THEN text ELSE @]
    IN  [copied EXCEPT !.textAreas = @ - 1]

\* the browser fulfils writeText: the text is on the clipboard
OnWriteResolved(s, text) == [s EXCEPT !.clipboard = text]

CopyApply(t, op) ==
    /\ buttonHTML' = t.buttonHTML
    /\ timers' = t.timers
    /\ pendingWrites' = t.pendingWrites
    /\ clipboard' = t.clipboard
    /\ textAreas' = t.textAreas
    /\ errorLog' = t.errorLog
    /\ execCalls' = t.execCalls
    /\ thrown' = t.thrown
    /\ acks' = t.acks
    /\ copyOp' = op

CopyIdle ==
    /\ hasClipboard = TRUE /\ hasCode = TRUE /\ codeText = "x = 1"
    /\ copyBuilt = FALSE /\ buttonHTML = Absent /\ buttonOpacity = "0"
    /\ timers = <<>> /\ pendingWrites = 0 /\ clipboard = Absent /\ textAreas = 0
    /\ errorLog = 0 /\ execCalls = 0 /\ thrown = 0 /\ clicks = 0 /\ acks = 0
    /\ rejects = 0 /\ resolves = 0 /\ copyOp = "none"

\* Before DOMContentLoaded: the parsed page's <pre> block and the browser.
CopyInit ==
    /\ hasClipboard \in BOOLEAN /\ hasCode \in BOOLEAN /\ codeText \in CodeTexts
    /\ copyBuilt = FALSE /\ buttonHTML = Absent /\ buttonOpacity = "0"
    /\ timers = <<>> /\ pendingWrites = 0 /\ clipboard = Absent /\ textAreas = 0
    /\ errorLog = 0 /\ execCalls = 0 /\ thrown = 0 /\ clicks = 0 /\ acks = 0
    /\ rejects = 0 /\ resolves = 0 /\ copyOp = "none"

\* new CodeBlockCopy(): init and addCopyButton for the block
CopyConstruct ==
    /\ ~copyBuilt
    /\ copyBuilt' = TRUE
    /\ buttonHTML' = ClipboardIcon
    /\ buttonOpacity' = "0"
    /\ copyOp' = "construct"
    /\ UNCHANGED <<hasClipboard, hasCode, codeText, timers, pendingWrites, clipboard,
                   textAreas, errorLog, execCalls, thrown, clicks, acks, rejects,
                   resolves>>
    /\ UNCHANGED <<themeVars, progressVars, lazyVars>>

MouseEnter ==
    /\ copyBuilt /\ buttonOpacity # "1"
    /\ buttonOpacity' = "1"
    /\ UNCHANGED <<hasClipboard, hasCode, codeText, copyBuilt, buttonHTML, timers,
                   pendingWrites, clipboard, textAreas, errorLog, execCalls, thrown,
                   clicks, acks, rejects, resolves, copyOp>>
    /\ UNCHANGED <<themeVars, progressVars, lazyVars>>

MouseLeave ==
    /\ copyBuilt /\ buttonOpacity # "0"
    /\ buttonOpacity' = "0"
    /\ UNCHANGED <<hasClipboard, hasCode, codeText, copyBuilt, buttonHTML, timers,
                   pendingWrites, clipboard, textAreas, errorLog, execCalls, thrown,
                   clicks, acks, rejects, resolves, copyOp>>
    /\ UNCHANGED <<themeVars, progressVars, lazyVars>>

\* a click on the button
CopyClick ==
    /\ copyBuilt /\ clicks < MaxClicks
    /\ clicks' = clicks + 1
    /\ CopyApply(OnCopyClick(CopyState), "click")
    /\ UNCHANGED <<hasClipboard, hasCode, codeText, copyBuilt, buttonOpacity, rejects,
                   resolves>>
    /\ UNCHANGED <<themeVars, progressVars, lazyVars>>

\* 2000 ms after its click the oldest pending timer fires
TimerFire ==
    /\ timers # <<>>
    /\ CopyApply(OnTimer(CopyState), "timer")
    /\ UNCHANGED <<hasClipboard, hasCode, codeText, copyBuilt, buttonOpacity, clicks,
                   rejects, resolves>>
    /\ UNCHANGED <<themeVars, progressVars, lazyVars>>

\* a pending writeText promise is fulfilled
WriteResolved ==
    /\ pendingWrites > 0
    /\ CopyApply(OnWriteResolved([CopyState EXCEPT !.pendingWrites = @ - 1], codeText),
                 "resolved")
    /\ resolves' = resolves + 1
    /\ UNCHANGED <<hasClipboard, hasCode, codeText, copyBuilt, buttonOpacity, clicks,
                   rejects>>
    /\ UNCHANGED <<themeVars, progressVars, lazyVars>>

\* a pending writeText promise is rejected: the catch callback runs
WriteRejected ==
    /\ pendingWrites > 0
    /\ \E execOk \in BOOLEAN :
          CopyApply(OnWriteRejected([CopyState EXCEPT !.pendingWrites = @ - 1],
                                    codeText, execOk), "rejected")
    /\ rejects' = rejects + 1
    /\ UNCHANGED <<hasClipboard, hasCode, codeText, copyBuilt, buttonOpacity, clicks,
                   resolves>>
    /\ UNCHANGED <<themeVars, progressVars, lazyVars>>

CopyNext ==
    \/ CopyConstruct
    \/ MouseEnter
    \/ MouseLeave
    \/ CopyClick
    \/ TimerFire
    \/ WriteResolved
    \/ WriteRejected

(***************************************************************************)
(* Specifications                                                           *)
(***************************************************************************)
Init == ThemeInit /\ ProgressInit /\ LazyInit /\ CopyInit

Next == ThemeNext \/ ProgressNext \/ LazyNext \/ CopyNext

Spec == Init /\ [][Next]_vars

InitTheme == ThemeInit /\ ProgressIdle /\ LazyIdle /\ CopyIdle

SpecTheme == InitTheme /\ [][ThemeNext]_vars

InitProgress == ThemeIdle /\ ProgressInit /\ LazyIdle /\ CopyIdle

SpecProgress == InitProgress /\ [][ProgressNext]_vars

InitLazy == ThemeIdle /\ ProgressIdle /\ LazyInit /\ CopyIdle

SpecLazy == InitLazy /\ [][LazyNext]_vars

InitCopy == ThemeIdle /\ ProgressIdle /\ LazyIdle /\ CopyInit

SpecCopy == InitCopy /\ [][CopyNext]_vars

(***************************************************************************)
(* Claims                                                                   *)
(***************************************************************************)

\* C1: after a page load that found no persisted theme, and as long as no toggle
\* click has occurred, the data-theme attribute equals the current ambient
\* preference (after the load and after every ambient-preference change).
C1_FollowsAmbient ==
    (pageOpen /\ savedTheme = Absent /\ ~toggled) => dataTheme = ambient

\* C2: the storage key 'theme' is written by a toggle click only: neither a page
\* load nor the ambient-preference listener ever calls setItem.
C2_OnlyToggleWrites == lastWriter \in {"none", "toggle"}

\* C3: a toggle click leaves data-theme equal to the stored value, and once a
\* toggle click has occurred every ambient-preference change leaves data-theme
\* and the stored value as they were.
C3_ToggleSticks ==
    [][/\ themeOp' = "toggle" => (dataTheme' \in Themes /\ dataTheme' = saved')
       /\ (toggled /\ themeOp' = "ambient") =>
              (dataTheme' = dataTheme /\ saved' = saved)]_vars

C3_Witness ==
    pageOpen /\ toggled /\ themeOp = "ambient" /\ dataTheme # ambient

\* C4: right after a page load, the applied theme is the persisted choice when
\* one existed (whatever the ambient preference); when none existed it is the
\* ambient preference and the storage still holds no choice.
C4_LoadRespectsSources ==
    themeOp = "load" =>
        /\ Truthy(savedTheme) => dataTheme = savedTheme
        /\ ~Truthy(savedTheme) => (dataTheme = ambient /\ saved = Absent)

\* C5: the button shows the checkmark right after each click, and once no revert
\* timer is pending it shows the idle clipboard glyph again.
C5_RevertsToIdle ==
    /\ (copyOp = "click" /\ hasClipboard /\ hasCode) => buttonHTML = CheckIcon
    /\ (copyBuilt /\ timers = <<>>) => buttonHTML = ClipboardIcon

\* C6: every rejected writeText was logged and ran the fallback to its end (one
\* execCommand per rejection, no textarea left in the document); every write,
\* rejected or still pending, had its click acknowledged; and the acknowledgment
\* of a click is the checkmark with a timer that restores the glyph: after one
\* acknowledged click the button shows the checkmark while the timer is pending
\* and the clipboard glyph once it has fired, whatever became of the write.
C6_FailureFallback ==
    /\ textAreas = 0
    /\ errorLog = rejects
    /\ execCalls = rejects
    /\ acks >= rejects + pendingWrites
    /\ (copyOp = "click" /\ pendingWrites > 0) =>
           (buttonHTML = CheckIcon /\ timers # <<>>)
    /\ (acks = 1 /\ timers # <<>>) =>
           (buttonHTML = CheckIcon /\ timers = <<ClipboardIcon>>)
    /\ (acks = 1 /\ timers = <<>>) => buttonHTML = ClipboardIcon

C6_Witness ==
    /\ copyOp = "rejected" /\ rejects = 1 /\ acks = 1
    /\ buttonHTML = CheckIcon /\ timers # <<>>
    /\ errorLog = 1 /\ execCalls = 1 /\ textAreas = 0

\* C7: without navigator.clipboard a click on the button still acknowledges, runs
\* the textarea fallback and lets no exception escape the listener.
C7_NoClipboardFallback ==
    (copyOp = "click" /\ ~hasClipboard /\ hasCode) =>
        (thrown = 0 /\ buttonHTML = CheckIcon /\ execCalls > 0 /\ textAreas = 0)

\* C8: loadImage takes effect at most once per image; from then on data-src is
\* absent and src is the original data-src; until then src and data-src are what
\* the page was parsed with.
C8_LoadOnce ==
    \A i \in Images :
        /\ loads[i] <= 1
        /\ loads[i] = 1 => (dataSrc[i] = Absent /\ imgSrc[i] = origDataSrc[i])
        /\ loads[i] = 0 => (dataSrc[i] = origDataSrc[i] /\ imgSrc[i] = origSrc[i])

C8_Witness ==
    lazyOp = "intersection" /\ \E i \in Images : loads[i] = 1 /\ i \notin observed

\* C9 as claimed: without IntersectionObserver the constructor creates no observer
\* and leaves every image that carried data-src with src equal to that value and
\* no data-src attribute.
C9_FallbackLoadsAllMarked ==
    (lazyBuilt /\ ~hasIO) =>
        /\ ~observer
        /\ \A i \in Images :
              origDataSrc[i] # Absent =>
                  (imgSrc[i] = origDataSrc[i] /\ dataSrc[i] = Absent)

\* C9 as amended: the same for every image that carried a non-empty data-src; an
\* image whose data-src is the empty string keeps its data-src and its src.
C9_FallbackLoadsNonEmpty ==
    (lazyBuilt /\ ~hasIO) =>
        /\ ~observer /\ observed = {}
        /\ \A i \in Images :
              /\ Truthy(origDataSrc[i]) =>
                     (imgSrc[i] = origDataSrc[i] /\ dataSrc[i] = Absent)
              /\ origDataSrc[i] = "" =>
                     (imgSrc[i] = origSrc[i] /\ dataSrc[i] = "")

C9_Witness ==
    /\ lazyBuilt /\ ~hasIO /\ lazyOp = "construct"
    /\ \E i \in Images : Truthy(origDataSrc[i])
    /\ \E i \in Images : origDataSrc[i] = ""

\* C10: what a scroll event writes to the bar's width is a number in [0,100].
C10_ProgressInRange ==
    (progressOp = "scroll" /\ scrollBound) =>
        /\ progressBar.kind = "num"
        /\ 0 <= progressBar.num
        /\ progressBar.num <= 100 * progressBar.den

\* C11: with the layout as it is (content height, content top, viewport height
\* fixed), the value the scroll listener computes does not decrease as the
\* scroll offset grows: for offsets s1 <= s2, ratio(s1) <= ratio(s2).
C11_Monotone ==
    (scrollBound /\ postContent) =>
        \A s1, s2 \in 0..MaxScroll :
            s1 <= s2 =>
                LessEq(OnScroll(progressBar, postContent, contentHeight, contentTop,
                                ScrollTopOf(s1, s1), windowHeight),
                       OnScroll(progressBar, postContent, contentHeight, contentTop,
                                ScrollTopOf(s2, s2), windowHeight))

\* C12: two consecutive toggle clicks bring data-theme, the stored value and the
\* icon glyph back to what they were before the first of the two.
C12_ToggleInvolutive ==
    Len(preToggle) = 2 => <<dataTheme, saved, iconText>> = preToggle[1]

C12_Witness ==
    /\ pageOpen /\ themeIcon /\ themeOp = "toggle" /\ Len(preToggle) = 2
    /\ preToggle[1] # preToggle[2]

\* C14: while a page is open, the theme is applied to the document whether or
\* not the toggle control and its icon exist; when the icon exists its glyph is
\* the sun exactly when data-theme is dark and the moon exactly when it is
\* light; when it does not exist no glyph is written.
C14_IconMatchesTheme ==
    pageOpen =>
        /\ dataTheme \in Themes
        /\ themeIcon =>
              /\ iconText = Sun <=> dataTheme = "dark"
              /\ iconText = Moon <=> dataTheme = "light"
        /\ ~themeIcon => iconText = InitialIcon

C14_Witness ==
    /\ pageOpen /\ themeIcon /\ toggled /\ themeOp = "toggle"
    /\ dataTheme = "dark" /\ iconText = Sun

\* C16: once ThemeManager is constructed, the value stored under 'theme' equals
\* the data-theme attribute, after every toggle click and ambient change.
C16_StoredEqualsApplied ==
    pageOpen => (saved \in Themes /\ saved = dataTheme)

C16_Witness ==
    /\ pageOpen /\ savedTheme = Absent /\ themeOp = "ambient"
    /\ saved = dataTheme /\ saved # ambient

\* C13 as claimed: the icon swap of a click happens only after that click's
\* clipboard write has completed (fulfilled or rejected): the swaps made so far
\* never outnumber the writes completed so far.
C13_SwapAfterCompletion == acks <= resolves + rejects

\* C13 as amended: the click listener swaps the icon in the same step in which
\* it starts the clipboard write, without waiting: right after a click that
\* started a write the checkmark shows while that write is still pending, and
\* every write started, pending ones included, already has its swap.
C13_SwapWithoutWaiting ==
    /\ acks = pendingWrites + resolves + rejects
    /\ (copyOp = "click" /\ hasClipboard /\ hasCode) =>
           (buttonHTML = CheckIcon /\ pendingWrites > 0 /\ acks > resolves + rejects)

C13_Witness ==
    /\ copyOp = "click" /\ buttonHTML = CheckIcon
    /\ pendingWrites = 1 /\ acks = 1 /\ resolves = 0 /\ rejects = 0

\* an entry of the batch names image i as intersecting
Intersecting(entries, i) ==
    \E k \in 1..Len(entries) : entries[k].target = i /\ entries[k].isIntersecting

\* C15: in a callback step, every observed image with an intersecting entry is
\* loaded (when it has a source) and is no longer observed after the step; every
\* other observed image stays observed and pending, untouched; and once the
\* constructor has returned no image is ever added to the observed set.
C15_UnobserveAfterLoad ==
    [][/\ lazyBuilt => observed' \subseteq observed
       /\ lazyOp' = "intersection" =>
             \A i \in observed :
                 IF Intersecting(lastEntries', i)
                 THEN /\ i \notin observed'
                      /\ Truthy(dataSrc[i]) =>
                             (loads'[i] = loads[i] + 1 /\ imgSrc'[i] = dataSrc[i])
                 ELSE /\ i \in observed'
                      /\ dataSrc[i] # Absent /\ dataSrc'[i] = dataSrc[i]
                      /\ imgSrc'[i] = imgSrc[i] /\ loads'[i] = loads[i]]_vars

C15_Witness ==
    /\ lazyOp = "intersection"
    /\ \E k \in 1..Len(lastEntries) :
          /\ lastEntries[k].isIntersecting
          /\ lastEntries[k].target \notin observed
          /\ loads[lastEntries[k].target] = 1
    /\ \E k \in 1..Len(lastEntries) :
          /\ ~lastEntries[k].isIntersecting
          /\ lastEntries[k].target \in observed
          /\ dataSrc[lastEntries[k].target] # Absent
====
